---------------------------- MODULE Spec2Model ----------------------------
(***************************************************************************)
(* The two command-line scripts of interactive-keras-captioning:           *)
(*   data_engine/rebuild_dataset_from_config.py  (the override applier)    *)
(*   utils/evaluate_from_dataset.py              (the corpus evaluator)    *)
(* Strings the scripts take apart (override tokens, metric names) are      *)
(* sequences of one-character strings, so that split, lower and            *)
(* literal_eval are computed and not assumed.                              *)
(***************************************************************************)
EXTENDS Integers, Sequences, FiniteSets

VARIABLES
    \* ---- rebuild_dataset_from_config.py
    changes,      \* args.changes: the override tokens
    loaded,       \* the mapping as returned by load_parameters / pkl2dict
    params,       \* the configuration mapping, mutated in place
    pos,          \* position of the for loop in args.changes (1-based)
    k, v,         \* the loop's k and v
    rpc,          \* where the script is
    status,       \* exit status of the process (-1 while running)
    exc,          \* the exception that ended the process uncaught, or "none"
    stdout,       \* what the script printed
    built,        \* the mapping build_dataset was called with
    \* ---- evaluate_from_dataset.py
    lenRef,       \* len(references)
    lenHyp,       \* number of lines of the hypotheses file
    step_size,    \* args.step_size
    metrics_list, \* args.metrics
    n,            \* the stepped loop's n
    epc,          \* where evaluate_from_file is
    raised,       \* the exception evaluate_from_file raised, or "none"
    calls,        \* the compute_score calls made, in order
    printed,      \* the lines printed, in order
    \* ---- CocoScore's scorer selection, applied to two metric lists
    listA, listB, \* the two metrics_list arguments
    selA, selB,   \* the scorers selected for each
    cpc           \* which call is next

rebuildVars == <<changes, loaded, params, pos, k, v, rpc, status, exc, stdout, built>>
evalVars == <<lenRef, lenHyp, step_size, metrics_list, n, epc, raised, calls, printed>>
cocoVars == <<listA, listB, selA, selB, cpc>>
vars == <<rebuildVars, evalVars, cocoVars>>

---------------------------------------------------------------------------
(* Bounds of the model *)
MaxChanges == 3
MaxSentences == 25
MaxStep == 10
MaxMetrics == 2

min(a, b) == IF a < b THEN a ELSE b

RECURSIVE SeqsUpTo(_, _)
SeqsUpTo(S, len) ==
    IF len = 0 THEN {<<>>}
    ELSE LET shorter == SeqsUpTo(S, len - 1)
         IN shorter \cup {Append(s, x) : s \in {t \in shorter : Len(t) = len - 1}, x \in S}

---------------------------------------------------------------------------
(* Characters *)
DigitSeq == <<"0", "1", "2", "3", "4", "5", "6", "7", "8", "9">>
UpperSeq == <<"A", "B", "C", "D", "E", "F", "G", "H", "I", "J", "K", "L", "M",
              "N", "O", "P", "Q", "R", "S", "T", "U", "V", "W", "X", "Y", "Z">>
LowerSeq == <<"a", "b", "c", "d", "e", "f", "g", "h", "i", "j", "k", "l", "m",
              "n", "o", "p", "q", "r", "s", "t", "u", "v", "w", "x", "y", "z">>
Range(s) == {s[i] : i \in 1..Len(s)}
Digits == Range(DigitSeq)
Letters == Range(UpperSeq) \cup Range(LowerSeq)

---------------------------------------------------------------------------
(* Values of the configuration mapping: every value has the same record    *)
(* shape, the field t telling which Python type it is.                     *)
IntV(i) == [t |-> "int", i |-> i, b |-> FALSE, s |-> <<>>, l |-> <<>>]
BoolV(b) == [t |-> "bool", i |-> 0, b |-> b, s |-> <<>>, l |-> <<>>]
NoneV == [t |-> "NoneType", i |-> 0, b |-> FALSE, s |-> <<>>, l |-> <<>>]
StrV(s) == [t |-> "str", i |-> 0, b |-> FALSE, s |-> s, l |-> <<>>]
ListV(l) == [t |-> "list", i |-> 0, b |-> FALSE, s |-> <<>>, l |-> l]
DictV(key, val) == [t |-> "dict", i |-> 0, b |-> FALSE, s |-> <<>>, l |-> <<key, val>>]

(* str.split(sep): the parts between the occurrences of sep *)
RECURSIVE split(_, _)
split(s, sep) ==
    IF s = <<>> THEN << <<>> >>
    ELSE LET r == split(Tail(s), sep)
         IN IF Head(s) = sep THEN << <<>> >> \o r
            ELSE << <<Head(s)>> \o Head(r) >> \o Tail(r)

(* ast.literal_eval on the literals built from decimal integers, True,     *)
(* False, None, flat lists of these and dict displays of one key.  The     *)
(* result is a record: kind is                                             *)
(* "ok" with the value, or the name of the exception raised.  A name that  *)
(* is no constant is a ValueError (malformed node); text that is no Python *)
(* expression is a SyntaxError.                                            *)
DigitVal(c) == (CHOOSE i \in 1..10 : DigitSeq[i] = c) - 1

RECURSIVE ParseInt(_)
ParseInt(s) ==
    IF s = <<>> THEN 0
    ELSE ParseInt(SubSeq(s, 1, Len(s) - 1)) * 10 + DigitVal(s[Len(s)])

IsDecimal(s) ==
    /\ s # <<>>
    /\ \A i \in 1..Len(s) : s[i] \in Digits
    /\ (Len(s) > 1 /\ s[1] = "0") => \A i \in 1..Len(s) : s[i] = "0"

IsName(s) ==
    /\ s # <<>>
    /\ s[1] \in Letters \cup {"_"}
    /\ \A i \in 1..Len(s) : s[i] \in Letters \cup Digits \cup {"_"}

Ok(val) == [kind |-> "ok", val |-> val]
Raise(e) == [kind |-> e, val |-> NoneV]

eval_atom(s) ==
    IF IsDecimal(s) THEN Ok(IntV(ParseInt(s)))
    ELSE IF s = <<"T", "r", "u", "e">> THEN Ok(BoolV(TRUE))
    ELSE IF s = <<"F", "a", "l", "s", "e">> THEN Ok(BoolV(FALSE))
    ELSE IF s = <<"N", "o", "n", "e">> THEN Ok(NoneV)
    ELSE IF IsName(s) THEN Raise("ValueError")
    ELSE Raise("SyntaxError")

eval_list(s) ==
    LET inner == SubSeq(s, 2, Len(s) - 1)
        parts == split(inner, ",")
        \* a trailing comma is allowed: [1,] is [1]
        items == IF inner = <<>> THEN <<>>
                 ELSE IF Len(parts) > 1 /\ parts[Len(parts)] = <<>>
                      THEN SubSeq(parts, 1, Len(parts) - 1)
                      ELSE parts
        res == [i \in 1..Len(items) |-> eval_atom(items[i])]
    IN IF \E i \in 1..Len(res) : res[i].kind = "SyntaxError"
       THEN Raise("SyntaxError")
       ELSE IF \E i \in 1..Len(res) : res[i].kind = "ValueError"
       THEN Raise("ValueError")
       ELSE Ok(ListV([i \in 1..Len(res) |-> res[i].val]))

IsList(s) == Len(s) >= 2 /\ s[1] = "[" /\ s[Len(s)] = "]"
eval_item(s) == IF IsList(s) THEN eval_list(s) ELSE eval_atom(s)

(* A dict display of one key: a key that is a list is unhashable, which is *)
(* a TypeError when the dict is built.                                     *)
eval_dict(s) ==
    LET parts == split(SubSeq(s, 2, Len(s) - 1), ":")
    IN IF Len(parts) # 2 THEN Raise("SyntaxError")
       ELSE LET key == eval_item(parts[1])
                val == eval_item(parts[2])
            IN IF key.kind = "SyntaxError" \/ val.kind = "SyntaxError"
               THEN Raise("SyntaxError")
               ELSE IF key.kind = "ValueError" THEN Raise("ValueError")
               ELSE IF val.kind = "ValueError" THEN Raise("ValueError")
               ELSE IF key.val.t = "list" THEN Raise("TypeError")
               ELSE Ok(DictV(key.val, val.val))

literal_eval(s) ==
    IF Len(s) >= 3 /\ s[1] = "{" /\ s[Len(s)] = "}" THEN eval_dict(s)
    ELSE eval_item(s)

---------------------------------------------------------------------------
(* rebuild_dataset_from_config.py *)

REBUILD_DATASET ==
    <<"R", "E", "B", "U", "I", "L", "D", "_", "D", "A", "T", "A", "S", "E", "T">>

(* The override tokens tried: k=5 k=True k=true k=[1,2] k=abc "k=a b"      *)
(* k={[1]:2} k_no_equals a=b=c m=7 REBUILD_DATASET=False                   *)
Tokens ==
    { <<"k", "=", "5">>,
      <<"k", "=", "T", "r", "u", "e">>,
      <<"k", "=", "t", "r", "u", "e">>,
      <<"k", "=", "[", "1", ",", "2", "]">>,
      <<"k", "=", "a", "b", "c">>,
      <<"k", "=", "a", " ", "b">>,
      <<"k", "=", "{", "[", "1", "]", ":", "2", "}">>,
      <<"k", "_", "n", "o", "_", "e", "q", "u", "a", "l", "s">>,
      <<"a", "=", "b", "=", "c">>,
      <<"m", "=", "7">>,
      REBUILD_DATASET \o <<"=", "F", "a", "l", "s", "e">> }

(* An empty dict *)
EmptyMap == [x \in {} |-> NoneV]

(* A variant of Store that keeps the value of a key already present *)
StoreIfAbsent(p, key, val) ==
    [x \in DOMAIN p \cup {key} |-> IF x \in DOMAIN p THEN p[x] ELSE val]

(* lines 39, 41, 45: params[key] = val *)
Store(p, key, val) == [x \in DOMAIN p \cup {key} |-> IF x = key THEN val ELSE p[x]]

(* The mappings load_parameters / pkl2dict may return *)
Configs ==
    { EmptyMap,
      Store(Store(EmptyMap, <<"k">>, IntV(1)), REBUILD_DATASET, BoolV(FALSE)),
      Store(Store(Store(EmptyMap, <<"k">>, StrV(<<"x">>)), <<"e">>, IntV(3)),
            REBUILD_DATASET, BoolV(TRUE)) }

NoOutput == <<>>

(* A variant of Unpacks that lets a third part through *)
UnpacksAtLeastTwo(parts) == Len(parts) >= 2

(* line 34: k, v = arg.split('=') raises ValueError unless there are       *)
(* exactly two parts *)
Unpacks(parts) == Len(parts) = 2

(* lines 32-37: the next token is split; a token that does not unpack into *)
(* k, v prints the diagnostic and exits with status 1 (SystemExit is no    *)
(* ValueError, so the outer handler lets it through).                      *)
SplitArg ==
    /\ rpc = "for"
    /\ pos <= Len(changes)
    /\ LET parts == split(changes[pos], "=")
       IN IF Unpacks(parts)
          THEN /\ k' = parts[1]
               /\ v' = parts[2]
               /\ rpc' = "coerce"
               /\ UNCHANGED <<status, stdout>>
          ELSE /\ stdout' = Append(stdout, [msg |-> "form", k |-> <<>>, v |-> <<>>])
               /\ status' = 1
               /\ rpc' = "exited"
               /\ UNCHANGED <<k, v>>
    /\ UNCHANGED <<changes, loaded, params, pos, exc, built>>

(* lines 40 and 42: both handlers are "except ValueError" *)
InnerCatches(e) == e = "ValueError"
OuterCatches(e) == e = "ValueError"

(* lines 38-44: params[k] = ast.literal_eval(v); a ValueError stores the   *)
(* raw string; any other exception leaves the inner try, and the outer     *)
(* handler takes it only if it is a ValueError (exit 2), else the process  *)
(* ends on the uncaught exception (Python's status for that is 1).         *)
CoerceAssign ==
    /\ rpc = "coerce"
    /\ LET r == literal_eval(v)
       IN IF r.kind = "ok"
          THEN /\ params' = Store(params, k, r.val)
               /\ pos' = pos + 1
               /\ rpc' = "for"
               /\ UNCHANGED <<status, exc, stdout>>
          ELSE IF InnerCatches(r.kind)
          THEN /\ params' = Store(params, k, StrV(v))
               /\ pos' = pos + 1
               /\ rpc' = "for"
               /\ UNCHANGED <<status, exc, stdout>>
          ELSE IF OuterCatches(r.kind)
          THEN /\ stdout' = Append(stdout, [msg |-> "error", k |-> k, v |-> v])
               /\ status' = 2
               /\ rpc' = "exited"
               /\ UNCHANGED <<params, pos, exc>>
          ELSE /\ exc' = r.kind
               /\ status' = 1
               /\ rpc' = "uncaught"
               /\ UNCHANGED <<params, pos, stdout>>
    /\ UNCHANGED <<changes, loaded, k, v, built>>

(* A variant of SetRebuildFlag that leaves the mapping as it is *)
SetRebuildFlagSkipped(p) == p

(* line 45 *)
SetRebuildFlag(p) == Store(p, REBUILD_DATASET, BoolV(TRUE))

(* line 45, reached when the for loop has run through args.changes *)
ForceRebuild ==
    /\ rpc = "for"
    /\ pos > Len(changes)
    /\ params' = SetRebuildFlag(params)
    /\ rpc' = "build"
    /\ UNCHANGED <<changes, loaded, pos, k, v, status, exc, stdout, built>>

(* lines 46-47: build_dataset(params); the script then ends with status 0 *)
BuildDataset ==
    /\ rpc = "build"
    /\ built' = params
    /\ rpc' = "done"
    /\ status' = 0
    /\ UNCHANGED <<changes, loaded, params, pos, k, v, exc, stdout>>


---------------------------------------------------------------------------
(* evaluate_from_dataset.py *)

Name_bleu == <<"b", "l", "e", "u">>
Name_meteor == <<"m", "e", "t", "e", "o", "r">>
Name_ter == <<"t", "e", "r">>
Name_rouge_l == <<"r", "o", "u", "g", "e", "_", "l">>
Name_rouge == <<"r", "o", "u", "g", "e">>
Name_cider == <<"c", "i", "d", "e", "r">>

(* A metrics_list argument: None, or a list of names *)
None == [none |-> TRUE, names |-> <<>>]
List(names) == [none |-> FALSE, names |-> names]

(* lines 18 and 58: the list of all five *)
AllFive == <<Name_bleu, Name_ter, Name_meteor, Name_rouge_l, Name_cider>>

(* A variant of lower that leaves the letters as they are *)
lowerSkipped(s) == s

(* str.lower(), on the ASCII letters *)
LowerChar(c) ==
    IF \E i \in 1..26 : UpperSeq[i] = c
    THEN LowerSeq[CHOOSE i \in 1..26 : UpperSeq[i] = c]
    ELSE c
lower(s) == [i \in 1..Len(s) |-> LowerChar(s[i])]

(* lines 57-60 *)
Normalise(ml) ==
    IF ml.none THEN AllFive ELSE [i \in 1..Len(ml.names) |-> lower(ml.names[i])]

(* x in metrics_list *)
In(x, list) == \E i \in 1..Len(list) : list[i] = x

(* lines 61-71: the scorers, in the order they are appended *)
Scorers(ml) ==
    LET names == Normalise(ml)
    IN (IF In(Name_bleu, names) THEN <<"Bleu">> ELSE <<>>)
       \o (IF In(Name_meteor, names) THEN <<"Meteor">> ELSE <<>>)
       \o (IF In(Name_ter, names) THEN <<"Ter">> ELSE <<>>)
       \o (IF In(Name_rouge_l, names) \/ In(Name_rouge, names) THEN <<"Rouge">> ELSE <<>>)
       \o (IF In(Name_cider, names) THEN <<"Cider">> ELSE <<>>)

(* lines 63-71: the labels each scorer's score is stored under *)
Method(scorer) ==
    CASE scorer = "Bleu" -> {"Bleu_1", "Bleu_2", "Bleu_3", "Bleu_4"}
      [] scorer = "Meteor" -> {"METEOR"}
      [] scorer = "Ter" -> {"TER"}
      [] scorer = "Rouge" -> {"ROUGE_L"}
      [] scorer = "Cider" -> {"CIDEr"}

(* lines 73-81: the keys of final_scores (the scores themselves are the    *)
(* scorers' business)                                                      *)
CocoScore(ml) == UNION {Method(sc) : sc \in Range(Scorers(ml))}

(* line 101: sorted(list(score)), the labels in code-point order *)
LabelOrder == <<"Bleu_1", "Bleu_2", "Bleu_3", "Bleu_4", "CIDEr", "METEOR", "ROUGE_L", "TER">>
sorted(score) == LET keep(x) == x \in score IN SelectSeq(LabelOrder, keep)

NoException == [type |-> "none", where |-> "", refs |-> 0, hyps |-> 0]

(* A variant of Mismatch that lets missing hypotheses through *)
MismatchOnlyExtra(hyps, refs) == hyps > refs

(* line 39 *)
Mismatch(hyps, refs) == hyps # refs

(* lines 90-96, 105: load_textfiles raises ValueError naming both counts   *)
(* when they differ; otherwise the step size picks the mode.               *)
LoadTextfiles ==
    /\ epc = "load"
    /\ IF Mismatch(lenHyp, lenRef)
       THEN /\ raised' = [type |-> "ValueError", where |-> "load_textfiles",
                          refs |-> lenRef, hyps |-> lenHyp]
            /\ epc' = "raised"
       ELSE /\ epc' = IF step_size < 1 THEN "whole" ELSE "stepped"
            /\ UNCHANGED raised
    /\ n' = 0
    /\ UNCHANGED <<lenRef, lenHyp, step_size, metrics_list, calls, printed>>

Line(kind, size, score) == [kind |-> kind, size |-> size, score |-> score]

(* lines 97-103: one CocoScore over the whole corpus, the header, then     *)
(* max() over the label lengths, which raises ValueError on no labels,     *)
(* then one line per label.                                                *)
WholeCorpus ==
    /\ epc = "whole"
    /\ LET score == CocoScore(metrics_list)
           labels == sorted(score)
       IN /\ calls' = Append(calls, [scorers |-> Scorers(metrics_list),
                                     idx |-> 0..(lenRef - 1)])
          /\ IF score = {}
             THEN /\ printed' = Append(printed, Line("header", lenRef, {}))
                  /\ raised' = [type |-> "ValueError", where |-> "max",
                                refs |-> lenRef, hyps |-> lenHyp]
                  /\ epc' = "raised"
             ELSE /\ printed' = Append(printed, Line("header", lenRef, {}))
                                \o [i \in 1..Len(labels) |-> Line("score", lenRef, {labels[i]})]
                  /\ epc' = "returned"
                  /\ UNCHANGED raised
    /\ UNCHANGED <<lenRef, lenHyp, step_size, metrics_list, n>>

(* A variant of Window without the cap *)
WindowUncapped(m, total) == m

(* A variant of LoopExit that stops once n reaches the total *)
LoopExitAtTotal(m, total) == m >= total

(* line 108, 116: min(n, len(ref)) *)
Window(m, total) == min(m, total)

(* line 117 *)
LoopExit(m, total) == m > total

(* lines 106-118: one pass of the while loop *)
SteppedPass ==
    /\ epc = "stepped"
    /\ LET m == n + step_size
           indices == 0..(Window(m, lenRef) - 1)
       IN /\ n' = m
          /\ calls' = Append(calls, [scorers |-> Scorers(metrics_list), idx |-> indices])
          /\ printed' = Append(printed,
                               Line("step", Window(m, lenRef), CocoScore(metrics_list)))
          /\ epc' = IF LoopExit(m, lenRef) THEN "returned" ELSE "stepped"
    /\ UNCHANGED <<lenRef, lenHyp, step_size, metrics_list, raised>>

(* The metric names tried by the evaluator runs: bleu CIDEr foo *)
EvalNames == { Name_bleu, <<"C", "I", "D", "E", "r">>, <<"f", "o", "o">> }
EvalMetrics == {List(AllFive)} \cup {List(l) : l \in SeqsUpTo(EvalNames, MaxMetrics)}

(* The metric names tried on CocoScore alone:                              *)
(* bleu BLEU rouge rouge_l Rouge_L ter foo                                 *)
CocoNames ==
    { Name_bleu, <<"B", "L", "E", "U">>, Name_rouge, Name_rouge_l,
      <<"R", "o", "u", "g", "e", "_", "L">>, Name_ter, <<"f", "o", "o">> }
CocoMetrics == {None} \cup {List(l) : l \in SeqsUpTo(CocoNames, MaxMetrics)}

(* CocoScore's selection for the first list, then for the second *)
SelectA ==
    /\ cpc = "A"
    /\ selA' = Scorers(listA)
    /\ cpc' = "B"
    /\ UNCHANGED <<listA, listB, selB>>

SelectB ==
    /\ cpc = "B"
    /\ selB' = Scorers(listB)
    /\ cpc' = "done"
    /\ UNCHANGED <<listA, listB, selA>>

---------------------------------------------------------------------------
(* The specifications: one per script, and one for CocoScore's selection.  *)
(* The variables of the parts that are not running keep their idle values. *)

InitRebuild ==
    /\ changes \in SeqsUpTo(Tokens, MaxChanges)
    /\ loaded \in Configs
    /\ params = loaded
    /\ pos = 1 /\ k = <<>> /\ v = <<>>
    /\ rpc = "for" /\ status = -1 /\ exc = "none"
    /\ stdout = NoOutput /\ built = EmptyMap
    /\ lenRef = 0 /\ lenHyp = 0 /\ step_size = 0 /\ metrics_list = List(<<>>)
    /\ n = 0 /\ epc = "idle" /\ raised = NoException
    /\ calls = <<>> /\ printed = <<>>
    /\ listA = None /\ listB = None /\ selA = <<>> /\ selB = <<>> /\ cpc = "idle"

NextRebuild ==
    \/ SplitArg /\ UNCHANGED <<evalVars, cocoVars>>
    \/ CoerceAssign /\ UNCHANGED <<evalVars, cocoVars>>
    \/ ForceRebuild /\ UNCHANGED <<evalVars, cocoVars>>
    \/ BuildDataset /\ UNCHANGED <<evalVars, cocoVars>>

SpecRebuild == InitRebuild /\ [][NextRebuild]_vars

InitEval ==
    /\ lenRef \in 0..MaxSentences
    /\ lenHyp \in 0..MaxSentences
    /\ step_size \in -1..MaxStep
    /\ metrics_list \in EvalMetrics
    /\ n = 0 /\ epc = "load" /\ raised = NoException
    /\ calls = <<>> /\ printed = <<>>
    /\ changes = <<>> /\ loaded = EmptyMap /\ params = EmptyMap
    /\ pos = 1 /\ k = <<>> /\ v = <<>>
    /\ rpc = "idle" /\ status = -1 /\ exc = "none"
    /\ stdout = NoOutput /\ built = EmptyMap
    /\ listA = None /\ listB = None /\ selA = <<>> /\ selB = <<>> /\ cpc = "idle"

NextEval ==
    \/ LoadTextfiles /\ UNCHANGED <<rebuildVars, cocoVars>>
    \/ WholeCorpus /\ UNCHANGED <<rebuildVars, cocoVars>>
    \/ SteppedPass /\ UNCHANGED <<rebuildVars, cocoVars>>

SpecEval == InitEval /\ [][NextEval]_vars

InitCoco ==
    /\ listA \in CocoMetrics
    /\ listB \in CocoMetrics
    /\ selA = <<>> /\ selB = <<>> /\ cpc = "A"
    /\ changes = <<>> /\ loaded = EmptyMap /\ params = EmptyMap
    /\ pos = 1 /\ k = <<>> /\ v = <<>>
    /\ rpc = "idle" /\ status = -1 /\ exc = "none"
    /\ stdout = NoOutput /\ built = EmptyMap
    /\ lenRef = 0 /\ lenHyp = 0 /\ step_size = 0 /\ metrics_list = List(<<>>)
    /\ n = 0 /\ epc = "idle" /\ raised = NoException
    /\ calls = <<>> /\ printed = <<>>

NextCoco ==
    \/ SelectA /\ UNCHANGED <<rebuildVars, evalVars>>
    \/ SelectB /\ UNCHANGED <<rebuildVars, evalVars>>

SpecCoco == InitCoco /\ [][NextCoco]_vars

---------------------------------------------------------------------------
(* What the properties of the rebuild script are stated with.  The key and *)
(* value of a token are read off the position of its "=", and the value a  *)
(* token is to store is written down value by value, so that neither rests *)
(* on split or literal_eval.                                               *)

EqCount(tok) == Cardinality({i \in 1..Len(tok) : tok[i] = "="})
WellFormed(tok) == EqCount(tok) = 1
EqAt(tok) == CHOOSE i \in 1..Len(tok) : tok[i] = "="
KeyOf(tok) == SubSeq(tok, 1, EqAt(tok) - 1)
ValueOf(tok) == SubSeq(tok, EqAt(tok) + 1, Len(tok))

HasMalformed(toks) == \E i \in 1..Len(toks) : ~WellFormed(toks[i])
FirstMalformed(toks) == CHOOSE i \in 1..Len(toks) :
    ~WellFormed(toks[i]) /\ \A j \in 1..(i - 1) : WellFormed(toks[j])

(* What Python stores for the values tried: 5, 7, True, False and [1,2]    *)
(* are literals; true and abc are names, stored as the raw string.         *)
Stored(val) ==
    CASE val = <<"5">> -> IntV(5)
      [] val = <<"7">> -> IntV(7)
      [] val = <<"T", "r", "u", "e">> -> BoolV(TRUE)
      [] val = <<"F", "a", "l", "s", "e">> -> BoolV(FALSE)
      [] val = <<"[", "1", ",", "2", "]">> -> ListV(<<IntV(1), IntV(2)>>)
      [] OTHER -> StrV(val)

(* The mapping base with the well-formed tokens toks applied in order: a   *)
(* key named by several tokens holds the value of its last token.          *)
Named(toks, key) == {i \in 1..Len(toks) : KeyOf(toks[i]) = key}
LastNamed(toks, key) ==
    CHOOSE i \in Named(toks, key) : \A j \in Named(toks, key) : j <= i
Overridden(base, toks) ==
    [key \in DOMAIN base \cup {KeyOf(toks[i]) : i \in 1..Len(toks)} |->
        IF Named(toks, key) # {}
        THEN Stored(ValueOf(toks[LastNamed(toks, key)]))
        ELSE base[key]]

Terminated == rpc \in {"exited", "uncaught", "done"}

(* C2 as claimed: with a malformed token anywhere among the overrides, the *)
(* process ends with exit status 1 and the configuration mapping is then   *)
(* the mapping as loaded.                                                  *)
C2_AsClaimed ==
    (HasMalformed(changes) /\ Terminated) => (status = 1 /\ params = loaded)

(* C2 as amended: with a malformed token among the overrides,              *)
(* build_dataset is never reached, the loop never gets past the first      *)
(* malformed token, the process ends with exit status 1, and the mapping   *)
(* is then the loaded mapping with the overrides of the tokens before the  *)
(* one the process ended on applied in order; the exit on the malformed    *)
(* token prints the diagnostic and stores nothing for it.                  *)
C2_MalformedExits ==
    HasMalformed(changes) =>
        /\ rpc \in {"for", "coerce", "exited", "uncaught"}
        /\ pos <= FirstMalformed(changes)
        /\ Terminated =>
              /\ status = 1
              /\ params = Overridden(loaded, SubSeq(changes, 1, pos - 1))
        /\ rpc = "exited" =>
              /\ pos = FirstMalformed(changes)
              /\ stdout = <<[msg |-> "form", k |-> <<>>, v |-> <<>>]>>
        /\ (pos = 1 /\ Terminated) => params = loaded

(* C2's case: the exit with status 1 on a malformed token that follows an  *)
(* override already stored.                                                *)
C2_Witness ==
    /\ rpc = "exited"
    /\ status = 1
    /\ pos = 2
    /\ changes[1] = <<"k", "=", "5">>
    /\ ~WellFormed(changes[2])
    /\ params # loaded

(* What C3 says is stored: as Stored, but true as the boolean and every    *)
(* value that is no literal as the raw string.                             *)
C3_Value(val) ==
    IF val = <<"t", "r", "u", "e">> THEN BoolV(TRUE) ELSE Stored(val)

(* C3 as claimed: an override key=value stores the parsed literal, or the  *)
(* raw string when the value is no literal, and a value that is no literal *)
(* never ends the process; k=5, k=true, k=[1,2], k=abc store 5, true,      *)
(* [1,2], "abc".                                                           *)
C3_AsClaimed ==
    /\ rpc # "uncaught"
    /\ (rpc = "for" /\ pos > 1) =>
          /\ KeyOf(changes[pos - 1]) \in DOMAIN params
          /\ params[KeyOf(changes[pos - 1])] = C3_Value(ValueOf(changes[pos - 1]))

(* C4 as claimed: a failure while coercing or assigning an override (the   *)
(* process ending on a well-formed token) exits with status 2 after        *)
(* printing the key and the value, never with status 1 or uncaught.        *)
C4_AsClaimed ==
    (rpc \in {"exited", "uncaught"} /\ WellFormed(changes[pos])) =>
        /\ rpc = "exited"
        /\ status = 2
        /\ exc = "none"
        /\ stdout = <<[msg |-> "error", k |-> KeyOf(changes[pos]),
                       v |-> ValueOf(changes[pos])]>>

IsTrue(p) == REBUILD_DATASET \in DOMAIN p /\ p[REBUILD_DATASET] = BoolV(TRUE)

(* C5: whenever build_dataset is called, and when it is about to be, the   *)
(* mapping's REBUILD_DATASET entry is True; build_dataset is not called    *)
(* before.                                                                 *)
C5_RebuildFlagSet ==
    /\ rpc = "build" => IsTrue(params)
    /\ rpc = "done" => (IsTrue(built) /\ built = params)
    /\ rpc # "done" => built = EmptyMap

(* C5's case: build_dataset called after an override set REBUILD_DATASET   *)
(* to False, the loaded mapping having it False too.                       *)
C5_Witness ==
    /\ rpc = "done"
    /\ \E i \in 1..Len(changes) :
          changes[i] = REBUILD_DATASET \o <<"=", "F", "a", "l", "s", "e">>
    /\ IsTrue(built)
    /\ REBUILD_DATASET \in DOMAIN loaded
    /\ loaded[REBUILD_DATASET] = BoolV(FALSE)

(* C10: the mapping build_dataset is called with is the loaded mapping     *)
(* with the overrides applied in token order and then REBUILD_DATASET set  *)
(* to True: its keys are the loaded keys, the override keys and            *)
(* REBUILD_DATASET; a key named by tokens holds its last token's value; a  *)
(* key not named and not REBUILD_DATASET keeps the loaded value.           *)
C10_BuiltMapping ==
    rpc = "done" =>
        /\ \A i \in 1..Len(changes) : WellFormed(changes[i])
        /\ DOMAIN built = DOMAIN loaded \cup {KeyOf(changes[i]) : i \in 1..Len(changes)}
                          \cup {REBUILD_DATASET}
        /\ built[REBUILD_DATASET] = BoolV(TRUE)
        /\ \A key \in DOMAIN built \ {REBUILD_DATASET} :
              IF Named(changes, key) # {}
              THEN built[key] = Stored(ValueOf(changes[LastNamed(changes, key)]))
              ELSE built[key] = loaded[key]

(* C10's case: two tokens name k, a third adds the key m, and the loaded   *)
(* key e is named by none.                                                 *)
C10_Witness ==
    /\ rpc = "done"
    /\ changes = << <<"k", "=", "5">>, <<"m", "=", "7">>, <<"k", "=", "a", "b", "c">> >>
    /\ <<"e">> \in DOMAIN loaded
    /\ built[<<"k">>] = StrV(<<"a", "b", "c">>)
    /\ built[<<"m">>] = IntV(7)
    /\ built[<<"e">>] = IntV(3)

---------------------------------------------------------------------------
(* What the properties of the evaluator are stated with *)

SteppedRun == epc \in {"stepped", "returned"} /\ step_size >= 1
Sizes == [i \in 1..Len(printed) |-> printed[i].size]
Prefix(size) == 0..(size - 1)

(* C1: in stepped mode with T sentences and step size s the printed        *)
(* evaluations are those at the prefix sizes min(k*s, T), k = 1 ..         *)
(* floor(T/s)+1, in that order, each scored over the indices               *)
(* 0..min(k*s, T)-1, and the loop stops after the last; T = 25 and s = 10  *)
(* give the three prefix sizes 10, 20, 25.                                 *)
C1_SteppedPrefixes ==
    SteppedRun =>
        LET T == lenRef
            s == step_size
            K == (T \div s) + 1
            size(i) == IF i * s < T THEN i * s ELSE T
        IN /\ Len(printed) <= K
           /\ Len(calls) = Len(printed)
           /\ \A i \in 1..Len(printed) :
                 /\ printed[i].kind = "step"
                 /\ printed[i].size = size(i)
                 /\ calls[i].idx = Prefix(size(i))
           /\ (epc = "returned") <=> (Len(printed) = K)
           /\ (epc = "returned" /\ T = 25 /\ s = 10) => Sizes = <<10, 20, 25>>

(* C1's case: the run with 25 sentences and step size 10, ended *)
C1_Witness ==
    /\ epc = "returned"
    /\ lenRef = 25
    /\ step_size = 10
    /\ Sizes = <<10, 20, 25>>
    /\ calls[3].idx = 0..24

FullPasses == {i \in 1..Len(calls) : calls[i].idx = Prefix(lenRef)}

(* C9: the stepped loop exits only after a pass whose n is greater than    *)
(* the sentence count T; a pass whose n equals T (T a positive multiple of *)
(* the step size) is followed by one more pass over the whole corpus, so   *)
(* the whole corpus is then scored exactly twice; the last pass of every   *)
(* stepped run covers the whole corpus.                                    *)
C9_ExtraPass ==
    SteppedRun =>
        /\ epc = "returned" =>
              /\ n > lenRef
              /\ printed # <<>>
              /\ printed[Len(printed)].size = lenRef
              /\ calls[Len(calls)].idx = Prefix(lenRef)
        /\ (n = lenRef /\ lenRef > 0) => epc = "stepped"
        /\ (epc = "returned" /\ lenRef > 0 /\ lenRef % step_size = 0) =>
              /\ Cardinality(FullPasses) = 2
              /\ FullPasses = {Len(calls) - 1, Len(calls)}
        /\ (epc = "returned" /\ lenRef % step_size # 0) => Cardinality(FullPasses) = 1

(* C9's case: 20 sentences and step size 10, the whole corpus scored at    *)
(* n = 20 and again at n = 30.                                             *)
C9_Witness ==
    /\ epc = "returned"
    /\ lenRef = 20
    /\ step_size = 10
    /\ n = 30
    /\ Sizes = <<10, 20, 20>>

(* C6: when the number of hypothesis lines differs from the number of      *)
(* references, evaluate_from_file ends on the count-mismatch ValueError,   *)
(* which names both counts, with no scorer invoked and nothing printed, in *)
(* whole-corpus and in stepped mode.                                       *)
C6_MismatchRaisesFirst ==
    lenHyp # lenRef =>
        /\ epc \in {"load", "raised"}
        /\ calls = <<>>
        /\ printed = <<>>
        /\ epc = "raised" =>
              raised = [type |-> "ValueError", where |-> "load_textfiles",
                        refs |-> lenRef, hyps |-> lenHyp]

(* C6's case: 10 references and 9 hypotheses, in stepped mode *)
C6_Witness ==
    /\ lenRef = 10
    /\ lenHyp = 9
    /\ step_size >= 1
    /\ epc = "raised"
    /\ raised.where = "load_textfiles"
    /\ calls = <<>>

(* The labels of the metrics a request matches, name by name *)
Matched(ml) ==
    UNION { IF \E l \in {Name_bleu, <<"B", "L", "E", "U">>} : name = l
            THEN {"Bleu_1", "Bleu_2", "Bleu_3", "Bleu_4"}
            ELSE IF name = Name_meteor THEN {"METEOR"}
            ELSE IF name = Name_ter THEN {"TER"}
            ELSE IF name \in {Name_rouge, Name_rouge_l} THEN {"ROUGE_L"}
            ELSE IF name \in {Name_cider, <<"C", "I", "D", "E", "r">>} THEN {"CIDEr"}
            ELSE {} : name \in Range(ml.names) }

(* C7 as claimed: requested names that match no supported metric are       *)
(* ignored: whatever the metric list, in whole-corpus and in stepped mode, *)
(* a run whose counts agree raises no error, and the scores printed are    *)
(* those of the matched metrics.                                           *)
C7_AsClaimed ==
    lenHyp = lenRef =>
        /\ raised = NoException
        /\ \A i \in 1..Len(printed) :
              /\ printed[i].kind = "step" => printed[i].score = Matched(metrics_list)
              /\ printed[i].kind = "score" => printed[i].score \subseteq Matched(metrics_list)
        /\ (epc = "returned" /\ step_size < 1) =>
              UNION {printed[i].score : i \in 1..Len(printed)} = Matched(metrics_list)

---------------------------------------------------------------------------
(* What the property of CocoScore's selection is stated with: equality of  *)
(* names up to letter case, letter by letter.                              *)

SameLetter(c, d) ==
    \/ c = d
    \/ \E i \in 1..26 : {c, d} = {UpperSeq[i], LowerSeq[i]}
SameName(x, y) == Len(x) = Len(y) /\ \A i \in 1..Len(x) : SameLetter(x[i], y[i])
Requested(ml) == IF ml.none THEN Range(AllFive) ELSE Range(ml.names)
SameRequest(a, b) ==
    /\ \A x \in Requested(a) : \E y \in Requested(b) : SameName(x, y)
    /\ \A y \in Requested(b) : \E x \in Requested(a) : SameName(x, y)
Asks(ml, name) == \E x \in Requested(ml) : SameName(x, name)

(* C8: the scorers CocoScore selects depend only on the set of requested   *)
(* names up to letter case: two lists that are the same up to case (and    *)
(* order and repetition) select the same scorers; rouge and rouge_l each   *)
(* select the one ROUGE-L scorer; no scorer is selected twice; each of the *)
(* five is selected exactly when asked for; no list (None) selects all     *)
(* five.                                                                   *)
C8_SelectionByLowercasedSet ==
    cpc = "done" =>
        /\ SameRequest(listA, listB) => selA = selB
        /\ \A i, j \in 1..Len(selA) : selA[i] = selA[j] => i = j
        /\ ("Bleu" \in Range(selA)) <=> Asks(listA, Name_bleu)
        /\ ("Meteor" \in Range(selA)) <=> Asks(listA, Name_meteor)
        /\ ("Ter" \in Range(selA)) <=> Asks(listA, Name_ter)
        /\ ("Rouge" \in Range(selA)) <=> (Asks(listA, Name_rouge) \/ Asks(listA, Name_rouge_l))
        /\ ("Cider" \in Range(selA)) <=> Asks(listA, Name_cider)
        /\ listA.none => selA = <<"Bleu", "Meteor", "Ter", "Rouge", "Cider">>

(* C8's case: BLEU with rouge against rouge_l with bleu *)
C8_Witness ==
    /\ cpc = "done"
    /\ listA = List(<< <<"B", "L", "E", "U">>, Name_rouge >>)
    /\ listB = List(<< Name_rouge_l, Name_bleu >>)
    /\ selA = <<"Bleu", "Rouge">>
    /\ selB = selA

=============================================================================
